---- MODULE Spec2Model ----
(***************************************************************************)
(* TM1637 four-digit seven-segment driver (tm1637/tm1637.py), bit-banged   *)
(* over two gpiod output lines.                                            *)
(*                                                                         *)
(* The two lines are observed the way a recording GPIO double observes     *)
(* them: every _set_clk / _set_dio call and every sleep() is one event of  *)
(* the sequence `bus`, which holds the events of the most recent public    *)
(* call.  Events are <<"clk", v>>, <<"dio", v>> and <<"sleep", us>> with   *)
(* the duration in microseconds.  Strings are sequences of code points.    *)
(***************************************************************************)
EXTENDS Integers, Sequences, FiniteSets, TLC

(***************************************************************************)
(* Program constants                                                       *)
(***************************************************************************)
TM1637_CMD1 == 64
TM1637_CMD2 == 192
TM1637_CMD3 == 128
TM1637_DSP_ON == 8
\* 0.00001 s, expressed in microseconds
TM1637_DELAY == 10
TM1637_MSB == 128

_SEGMENTS ==
  << 63, 6, 91, 79, 102, 109, 125, 7, 127, 111, 119, 124, 57, 94, 121, 113,
     61, 118, 6, 30, 118, 56, 85, 84, 63, 115, 103, 80, 109, 120, 62, 28,
     42, 118, 110, 91, 0, 64, 99 >>

\* _SEGMENTS[i] with Python's 0-based index
Seg(i) == _SEGMENTS[i + 1]

(***************************************************************************)
(* Bounds of the model                                                     *)
(***************************************************************************)
\* longest raw segment list handed to write()
MaxSegs == 2
\* longest string handed to show() and scroll()
MaxStrLen == 2
\* most gpiochip devices present under /dev
MaxChips == 2
\* largest code point handed to encode_char()
MaxCode == 127
\* last event of a call at which a line write is made to fail
MaxFailAt == 122

(***************************************************************************)
(* Input domains                                                           *)
(***************************************************************************)
SegVals == {0, 6, 237}
PosVals == -1 .. 4
BrightVals == -1 .. 8
\* initial brightness handed to the constructor (7 is the default)
CtorBrightVals == {-1, 0, 7, 8}
\* 'A', '5', '!'
CharVals == {65, 53, 33}
NumVals == {-15, -10, -9, 5, 99, 100}
Num2Vals == {-10, -9, 7, 100}
TempVals == {-15, -10, -9, -1, 0, 7, 10, 99, 100}
DelayVals == {0, 10}
\* clk and dio line offsets handed to the constructor
PinVals == {<<0, 1>>}
\* number of lines of a gpiochip
ChipSizes == {1, 2}

SeqsUpTo(S, n) == UNION {[1 .. k -> S] : k \in 0 .. n}

\* 'B', '2', 'a': put in front of a string to make one longer than the display
LongPrefix == <<66, 50, 97>>
\* strings handed to show(): the short ones and the same behind LongPrefix
ShowStrings ==
  SeqsUpTo(CharVals, MaxStrLen)
    \cup {LongPrefix \o t : t \in SeqsUpTo(CharVals, MaxStrLen)}

(***************************************************************************)
(* Integer and sequence primitives of the language                         *)
(***************************************************************************)
Pow2(i) == 2 ^ i

\* (b >> i) & 1
BitAt(b, i) == (b \div Pow2(i)) % 2

\* a | b on 8-bit values
BitOr(a, b) ==
  LET bit(i) == IF BitAt(a, i) = 1 \/ BitAt(b, i) = 1 THEN Pow2(i) ELSE 0
  IN  bit(0) + bit(1) + bit(2) + bit(3) + bit(4) + bit(5) + bit(6) + bit(7)

PyMin(a, b) == IF a < b THEN a ELSE b
PyMax(a, b) == IF a > b THEN a ELSE b

\* s[lo:hi] for non-negative lo, hi
PySlice(s, lo, hi) ==
  LET start == PyMin(lo, Len(s))
      stop == PyMax(start, PyMin(hi, Len(s)))
  IN  SubSeq(s, start + 1, stop)

\* s[lo:hi] = x for non-negative lo, hi
PySliceAssign(s, lo, hi, x) ==
  LET start == PyMin(lo, Len(s))
      stop == PyMax(start, PyMin(hi, Len(s)))
  IN  SubSeq(s, 1, start) \o x \o SubSeq(s, stop + 1, Len(s))

\* [0] * n
Zeros(n) == [k \in 1 .. n |-> 0]

RECURSIVE DecDigits(_)
\* str(n) for n >= 0, as code points
DecDigits(n) ==
  IF n < 10 THEN <<48 + n>> ELSE DecDigits(n \div 10) \o <<48 + (n % 10)>>

Abs(n) == IF n < 0 THEN -n ELSE n

\* f"{n:02d}": sign-aware zero padding to width 2
Fmt02d(n) ==
  LET sign == IF n < 0 THEN <<45>> ELSE <<>>
      digs == DecDigits(Abs(n))
      pad == PyMax(0, 2 - Len(sign) - Len(digs))
  IN  sign \o [k \in 1 .. pad |-> 48] \o digs

\* "{0: >2d}".format(n): right-aligned in a width-2 field filled with spaces
FmtSp2d(n) ==
  LET body == (IF n < 0 THEN <<45>> ELSE <<>>) \o DecDigits(Abs(n))
      pad == PyMax(0, 2 - Len(body))
  IN  [k \in 1 .. pad |-> 32] \o body

(***************************************************************************)
(* Bus protocol                                                            *)
(***************************************************************************)
\* _set_clk / _set_dio: either backend (gpiod v1 line.set_value, gpiod v2
\* request.set_value) drives the line to int(bool(value))
_set_clk(value) == << <<"clk", IF value # 0 THEN 1 ELSE 0>> >>

_set_dio(value) == << <<"dio", IF value # 0 THEN 1 ELSE 0>> >>

sleep(us) == << <<"sleep", us>> >>

_start == _set_clk(1) \o _set_dio(1) \o _set_dio(0) \o _set_clk(0)

\* variant: the data line is not raised at the end
_stop_nodio == _set_clk(0) \o _set_dio(0) \o _set_clk(1)

_stop == _set_clk(0) \o _set_dio(0) \o _set_clk(1) \o _set_dio(1)

\* variant: the data bit is put on the line after the clock is raised
WriteBit_late(b, i) ==
  _set_clk(1) \o sleep(TM1637_DELAY)
    \o _set_dio(BitAt(b, i)) \o sleep(TM1637_DELAY)
    \o _set_clk(0) \o sleep(TM1637_DELAY)

\* one iteration of the bit loop of _write_byte
WriteBit(b, i) ==
  _set_dio(BitAt(b, i)) \o sleep(TM1637_DELAY)
    \o _set_clk(1) \o sleep(TM1637_DELAY)
    \o _set_clk(0) \o sleep(TM1637_DELAY)

\* variant: most significant bit first
_write_byte_msb(b) ==
  WriteBit(b, 7) \o WriteBit(b, 6) \o WriteBit(b, 5) \o WriteBit(b, 4)
    \o WriteBit(b, 3) \o WriteBit(b, 2) \o WriteBit(b, 1) \o WriteBit(b, 0)
    \o _set_clk(0) \o sleep(TM1637_DELAY)
    \o _set_clk(1) \o sleep(TM1637_DELAY)
    \o _set_clk(0)

_write_byte(b) ==
  WriteBit(b, 0) \o WriteBit(b, 1) \o WriteBit(b, 2) \o WriteBit(b, 3)
    \o WriteBit(b, 4) \o WriteBit(b, 5) \o WriteBit(b, 6) \o WriteBit(b, 7)
    \o _set_clk(0) \o sleep(TM1637_DELAY)
    \o _set_clk(1) \o sleep(TM1637_DELAY)
    \o _set_clk(0)

\* self._write_byte(b) for every byte value b
ByteEvents == [b \in 0 .. 255 |-> _write_byte(b)]

_write_data_cmd == _start \o ByteEvents[TM1637_CMD1] \o _stop

\* variant: the control command always carries the highest brightness
_write_dsp_ctrl_max(brightness) ==
  _start
    \o ByteEvents[BitOr(BitOr(TM1637_CMD3, TM1637_DSP_ON), 7)]
    \o _stop

\* variant: the control phase is left open
_write_dsp_ctrl_nostop(brightness) ==
  _start
    \o ByteEvents[BitOr(BitOr(TM1637_CMD3, TM1637_DSP_ON), brightness)]

_write_dsp_ctrl(brightness) ==
  _start
    \o ByteEvents[BitOr(BitOr(TM1637_CMD3, TM1637_DSP_ON), brightness)]
    \o _stop

(***************************************************************************)
(* Results of a call: the events it issued, the exception it raised ("" if *)
(* none), and the value it returned ("None" if none).                      *)
(***************************************************************************)
Ok(events) == [events |-> events, err |-> "", ret |-> "None"]

Raise(events, e) == [events |-> events, err |-> e, ret |-> "None"]

RECURSIVE WriteSegs(_)
\* for seg in segments: self._write_byte(seg)
WriteSegs(segments) ==
  IF segments = <<>> THEN <<>>
  ELSE ByteEvents[Head(segments)] \o WriteSegs(Tail(segments))

\* variant: upper bound off by one
PosInRange_upto4(pos) == 0 <= pos /\ pos <= 4

PosInRange(pos) == 0 <= pos /\ pos <= 3

\* variant: data command and address sent in one phase
write_merged(segments, pos, brightness) ==
  IF ~PosInRange(pos) THEN Raise(<<>>, "ValueError: Position out of range")
  ELSE Ok(_start \o ByteEvents[TM1637_CMD1]
            \o ByteEvents[BitOr(TM1637_CMD2, pos)]
            \o WriteSegs(segments)
            \o _stop
            \o _write_dsp_ctrl(brightness))

\* TM1637.write
write(segments, pos, brightness) ==
  IF ~PosInRange(pos) THEN Raise(<<>>, "ValueError: Position out of range")
  ELSE Ok(_write_data_cmd
            \o _start \o ByteEvents[BitOr(TM1637_CMD2, pos)]
            \o WriteSegs(segments)
            \o _stop
            \o _write_dsp_ctrl(brightness))

(***************************************************************************)
(* Glyph encoder                                                           *)
(***************************************************************************)
\* marks a character for which encode_char raises
CharError == -1

\* variant: glyph indices of '*' and '-' exchanged
encode_char_swapped(o) ==
  IF o = 32 THEN Seg(36)
  ELSE IF o = 42 THEN Seg(37)
  ELSE IF o = 45 THEN Seg(38)
  ELSE IF 65 <= o /\ o <= 90 THEN Seg(o - 55)
  ELSE IF 97 <= o /\ o <= 122 THEN Seg(o - 87)
  ELSE IF 48 <= o /\ o <= 57 THEN Seg(o - 48)
  ELSE CharError

\* TM1637.encode_char, on the code point o = ord(char)
encode_char(o) ==
  IF o = 32 THEN Seg(36)
  ELSE IF o = 42 THEN Seg(38)
  ELSE IF o = 45 THEN Seg(37)
  ELSE IF 65 <= o /\ o <= 90 THEN Seg(o - 55)
  ELSE IF 97 <= o /\ o <= 122 THEN Seg(o - 87)
  ELSE IF 48 <= o /\ o <= 57 THEN Seg(o - 48)
  ELSE CharError

\* a call of encode_char: the byte returned or the ValueError raised
encode_char_call(o) ==
  IF encode_char(o) = CharError
  THEN Raise(<<>>, "ValueError: Character out of range")
  ELSE [events |-> <<>>, err |-> "", ret |-> encode_char(o)]

\* does encode_string raise on this string?
EncodeRaises(string) ==
  \E i \in 1 .. Len(string) : encode_char(string[i]) = CharError

\* TM1637.encode_string, for a string on which it does not raise
encode_string(string) == [i \in 1 .. Len(string) |-> encode_char(string[i])]

\* segments[1] |= TM1637_MSB
SetColon(segments) ==
  [segments EXCEPT ![2] = BitOr(segments[2], TM1637_MSB)]

(***************************************************************************)
(* Composed operations.  Each yields the result of the call; brightness is *)
(* the stored self._brightness at the time of the call.                    *)
(***************************************************************************)
\* variant: upper bound off by one
BrightnessInRange_upto8(val) == 0 <= val /\ val <= 8

BrightnessInRange(val) == 0 <= val /\ val <= 7

\* variant: colon bit put on the first byte
show_colonfirst(string, colon, brightness) ==
  IF EncodeRaises(string) THEN Raise(<<>>, "ValueError: Character out of range")
  ELSE LET segments == encode_string(string)
           marked == IF Len(segments) > 1 /\ colon
                     THEN [segments EXCEPT ![1] = BitOr(segments[1], TM1637_MSB)]
                     ELSE segments
       IN  write(PySlice(marked, 0, 4), 0, brightness)

\* variant: the whole string is written
show_notrunc(string, colon, brightness) ==
  IF EncodeRaises(string) THEN Raise(<<>>, "ValueError: Character out of range")
  ELSE LET segments == encode_string(string)
           marked == IF Len(segments) > 1 /\ colon THEN SetColon(segments)
                     ELSE segments
       IN  write(marked, 0, brightness)

\* variant: only the four characters shown are encoded
show_truncfirst(string, colon, brightness) ==
  IF EncodeRaises(PySlice(string, 0, 4))
  THEN Raise(<<>>, "ValueError: Character out of range")
  ELSE LET segments == encode_string(PySlice(string, 0, 4))
           marked == IF Len(segments) > 1 /\ colon THEN SetColon(segments)
                     ELSE segments
       IN  write(marked, 0, brightness)

\* TM1637.show
show(string, colon, brightness) ==
  IF EncodeRaises(string) THEN Raise(<<>>, "ValueError: Character out of range")
  ELSE LET segments == encode_string(string)
           marked == IF Len(segments) > 1 /\ colon THEN SetColon(segments)
                     ELSE segments
       IN  write(PySlice(marked, 0, 4), 0, brightness)

\* variant: upper clamp off by one
numbers_clamp100(num1, num2, colon, brightness) ==
  LET n1 == PyMax(-9, PyMin(num1, 100))
      n2 == PyMax(-9, PyMin(num2, 100))
      segments == encode_string(Fmt02d(n1) \o Fmt02d(n2))
  IN  write(IF colon THEN SetColon(segments) ELSE segments, 0, brightness)

\* TM1637.numbers
numbers(num1, num2, colon, brightness) ==
  LET n1 == PyMax(-9, PyMin(num1, 99))
      n2 == PyMax(-9, PyMin(num2, 99))
      segments == encode_string(Fmt02d(n1) \o Fmt02d(n2))
  IN  write(IF colon THEN SetColon(segments) ELSE segments, 0, brightness)

\* variant: number and unit suffix sent as one 4-byte write
temperature_merged(num, brightness) ==
  IF num < -9 THEN show(<<108, 111>>, FALSE, brightness)
  ELSE IF num > 99 THEN show(<<104, 105>>, FALSE, brightness)
  ELSE write(encode_string(FmtSp2d(num)) \o <<Seg(38), Seg(12)>>, 0, brightness)

\* TM1637.temperature
temperature(num, brightness) ==
  IF num < -9 THEN show(<<108, 111>>, FALSE, brightness)
  ELSE IF num > 99 THEN show(<<104, 105>>, FALSE, brightness)
  ELSE LET first == write(encode_string(FmtSp2d(num)), 0, brightness)
           second == write(<<Seg(38), Seg(12)>>, 2, brightness)
       IN  Ok(first.events \o second.events)

RECURSIVE ScrollFrames(_, _, _, _, _)
\* iterations i .. count-1 of the loop of scroll
ScrollFrames(data, i, count, delay, brightness) ==
  IF i >= count THEN <<>>
  ELSE write(PySlice(data, i, i + 4), 0, brightness).events
         \o sleep(delay * 1000)
         \o ScrollFrames(data, i + 1, count, delay, brightness)

\* variant: no blank frames behind the text
scroll_nopad(string, delay, brightness) ==
  IF EncodeRaises(string) THEN Raise(<<>>, "ValueError: Character out of range")
  ELSE LET segments == encode_string(string)
           data == Zeros(4) \o segments
       IN  Ok(ScrollFrames(data, 0, Len(segments) + 5, delay, brightness))

\* variant: one frame short
scroll_short(string, delay, brightness) ==
  IF EncodeRaises(string) THEN Raise(<<>>, "ValueError: Character out of range")
  ELSE LET segments == encode_string(string)
           data == PySliceAssign(Zeros(8), 4, 0, segments)
       IN  Ok(ScrollFrames(data, 0, Len(segments) + 4, delay, brightness))

\* TM1637.scroll
scroll(string, delay, brightness) ==
  IF EncodeRaises(string) THEN Raise(<<>>, "ValueError: Character out of range")
  ELSE LET segments == encode_string(string)
           data == PySliceAssign(Zeros(8), 4, 0, segments)
       IN  Ok(ScrollFrames(data, 0, Len(segments) + 5, delay, brightness))

\* variant: a zero argument taken for an omitted one
BrightnessStored_truthy(val, brightness) ==
  IF BrightnessInRange(val) /\ val # 0 THEN val ELSE brightness

\* the value self._brightness holds when brightness(val) returns or raises
BrightnessStored(val, brightness) ==
  IF BrightnessInRange(val) THEN val ELSE brightness

\* variant: control command sent before the new value is stored
brightness_set_stale(val, brightness) ==
  IF ~BrightnessInRange(val) THEN Raise(<<>>, "ValueError: Brightness out of range")
  ELSE Ok(_write_data_cmd \o _write_dsp_ctrl(brightness))

\* TM1637.brightness with an argument
brightness_set(val, brightness) ==
  IF ~BrightnessInRange(val) THEN Raise(<<>>, "ValueError: Brightness out of range")
  ELSE Ok(_write_data_cmd \o _write_dsp_ctrl(BrightnessStored(val, brightness)))

\* variant: the new value is stored after the line writes
BrightnessStoredLate(val, brightness, failed) ==
  IF BrightnessInRange(val) /\ ~failed THEN val ELSE brightness

\* the value self._brightness holds when brightness(val) returns or raises,
\* a line write having failed or not: the assignment precedes the writes
BrightnessStoredOnFault(val, brightness, failed) ==
  BrightnessStored(val, brightness)

\* can the line write at event failAt of these events fail?  0: none fails
CanFailAt(events, failAt) ==
  \/ failAt = 0
  \/ /\ 1 <= failAt
     /\ failAt <= Len(events)
     /\ events[failAt][1] # "sleep"

\* TM1637.brightness with an argument, the set_value of the line write at
\* event failAt raising: the events before it are issued, it is not, and the
\* exception leaves the call
brightness_set_fault(val, brightness, failAt) ==
  LET r == brightness_set(val, brightness)
  IN  IF r.err # "" \/ failAt = 0 THEN r
      ELSE Raise(SubSeq(r.events, 1, failAt - 1), "OSError")

\* TM1637.brightness without an argument
brightness_get(brightness) ==
  [events |-> <<>>, err |-> "", ret |-> brightness]

(***************************************************************************)
(* Construction                                                            *)
(***************************************************************************)
\* find_gpiochip_for_line over the gpiochips of /dev in sorted order, each
\* given by its number of lines: the chips opened and the one returned
\* (0 when none has the line and RuntimeError is raised)
find_gpiochip_for_line(line_offset, dev) ==
  LET hits == {k \in 1 .. Len(dev) : line_offset < dev[k]}
      found == IF hits = {} THEN 0
               ELSE CHOOSE k \in hits : \A j \in hits : k <= j
  IN  [chip |-> found, opened |-> IF found = 0 THEN Len(dev) ELSE found]

\* _init_backend_v1 (default_vals=[0]) / _init_backend_v2 (INACTIVE): the
\* lines requested as outputs with initial level 0, or none when the chip
\* lacks one of them
InitBackend(use_v2, clk, dio, size) ==
  IF use_v2
  THEN IF clk < size /\ dio < size THEN {clk, dio} ELSE {}
  ELSE IF clk < size /\ dio < size THEN {clk} \cup {dio} ELSE {}

\* TM1637.__init__
Constructor(clk, dio, brightness, use_v2, dev) ==
  IF ~BrightnessInRange(brightness)
  THEN [err |-> "ValueError: Brightness out of range", opened |-> 0,
        lines |-> {}]
  ELSE LET f == find_gpiochip_for_line(clk, dev)
       IN  IF f.chip = 0
           THEN [err |-> "RuntimeError: No gpiochip found", opened |-> f.opened,
                 lines |-> {}]
           ELSE LET lines == InitBackend(use_v2, clk, dio, dev[f.chip])
                IN  [err |-> IF lines = {} THEN "OSError" ELSE "",
                     opened |-> f.opened, lines |-> lines]

(***************************************************************************)
(* State                                                                   *)
(***************************************************************************)
VARIABLES
  pc,           \* "new" before a controller exists, "ready" once constructed
  _brightness,  \* self._brightness ("None" before construction)
  chipOpens,    \* gpiod.Chip objects opened by the last constructor call
  requested,    \* line offsets held as outputs
  clk_level,    \* level last driven on the clock line
  dio_level,    \* level last driven on the data line
  bus,          \* events issued by the most recent call
  call,         \* the most recent call and its arguments
  err,          \* the exception it raised, "" if none
  ret           \* the value it returned, "None" if none

vars ==
  <<pc, _brightness, chipOpens, requested, clk_level, dio_level,
    bus, call, err, ret>>

RECURSIVE LastLevel(_, _, _, _)
\* level of a line after the first n events, starting from level old
LastLevel(events, n, line, old) ==
  IF n = 0 THEN old
  ELSE IF events[n][1] = line THEN events[n][2]
  ELSE LastLevel(events, n - 1, line, old)

Init ==
  /\ pc = "new"
  /\ _brightness = "None"
  /\ chipOpens = 0
  /\ requested = {}
  /\ clk_level = 0
  /\ dio_level = 0
  /\ bus = <<>>
  /\ call = [op |-> "none"]
  /\ err = ""
  /\ ret = "None"

\* the effect of a completed or failed method call on the controller
Apply(c, result, b) ==
  \E r \in {result} :
    /\ call' = c
    /\ bus' = r.events
    /\ err' = r.err
    /\ ret' = r.ret
    /\ _brightness' = b
    /\ clk_level' = LastLevel(r.events, Len(r.events), "clk", clk_level)
    /\ dio_level' = LastLevel(r.events, Len(r.events), "dio", dio_level)
    /\ UNCHANGED <<pc, chipOpens, requested>>

Construct ==
  /\ pc = "new"
  /\ \E pins \in PinVals, b \in CtorBrightVals, use_v2 \in BOOLEAN,
        dev \in SeqsUpTo(ChipSizes, MaxChips) :
       LET r == Constructor(pins[1], pins[2], b, use_v2, dev)
       IN  /\ call' = [op |-> "construct", clk |-> pins[1], dio |-> pins[2],
                       brightness |-> b, use_v2 |-> use_v2, dev |-> dev]
           /\ err' = r.err
           /\ chipOpens' = r.opened
           /\ requested' = r.lines
           /\ pc' = IF r.err = "" THEN "ready" ELSE "new"
           /\ _brightness' = IF r.err = "" THEN b ELSE "None"
  /\ clk_level' = 0
  /\ dio_level' = 0
  /\ bus' = <<>>
  /\ ret' = "None"

Write ==
  /\ pc = "ready"
  /\ \E segments \in SeqsUpTo(SegVals, MaxSegs), pos \in PosVals :
       Apply([op |-> "write", segments |-> segments, pos |-> pos],
             write(segments, pos, _brightness), _brightness)

BrightnessSet ==
  /\ pc = "ready"
  /\ \E val \in BrightVals :
       Apply([op |-> "brightness", val |-> val],
             brightness_set(val, _brightness),
             BrightnessStored(val, _brightness))

BrightnessGet ==
  /\ pc = "ready"
  /\ Apply([op |-> "brightness_get"], brightness_get(_brightness), _brightness)

Show ==
  /\ pc = "ready"
  /\ \E string \in ShowStrings, colon \in BOOLEAN :
       Apply([op |-> "show", string |-> string, colon |-> colon],
             show(string, colon, _brightness), _brightness)

Numbers ==
  /\ pc = "ready"
  /\ \E num1 \in NumVals, num2 \in Num2Vals, colon \in BOOLEAN :
       Apply([op |-> "numbers", num1 |-> num1, num2 |-> num2, colon |-> colon],
             numbers(num1, num2, colon, _brightness), _brightness)

Temperature ==
  /\ pc = "ready"
  /\ \E num \in TempVals :
       Apply([op |-> "temperature", num |-> num],
             temperature(num, _brightness), _brightness)

Scroll ==
  /\ pc = "ready"
  /\ \E string \in SeqsUpTo(CharVals, MaxStrLen), delay \in DelayVals :
       Apply([op |-> "scroll", string |-> string, delay |-> delay],
             scroll(string, delay, _brightness), _brightness)

Next ==
  \/ Construct
  \/ Write
  \/ BrightnessSet
  \/ BrightnessGet
  \/ Show
  \/ Numbers
  \/ Temperature
  \/ Scroll

Spec == Init /\ [][Next]_vars

(***************************************************************************)
(* The glyph encoder on its own: a controller is constructed and           *)
(* encode_char is called on every code point up to MaxCode.                *)
(***************************************************************************)
EncodeChar ==
  /\ pc = "ready"
  /\ \E o \in 0 .. MaxCode :
       Apply([op |-> "encode_char", o |-> o], encode_char_call(o), _brightness)

NextEncode ==
  \/ Construct
  \/ EncodeChar

SpecEncode == Init /\ [][NextEncode]_vars

(***************************************************************************)
(* Failing line writes: brightness(val) is called on a constructed         *)
(* controller and one of its line writes may raise.                        *)
(***************************************************************************)
BrightnessSetFault ==
  /\ pc = "ready"
  /\ \E val \in BrightVals, failAt \in 0 .. MaxFailAt :
       /\ CanFailAt(brightness_set(val, _brightness).events, failAt)
       /\ \E r \in {brightness_set_fault(val, _brightness, failAt)} :
            Apply([op |-> "brightness", val |-> val, failAt |-> failAt], r,
                  BrightnessStoredOnFault(val, _brightness, r.err = "OSError"))

NextFault ==
  \/ Construct
  \/ BrightnessSetFault
  \/ BrightnessGet

SpecFault == Init /\ [][NextFault]_vars

(***************************************************************************)
(* Reading the recorded bus                                                *)
(*                                                                         *)
(* The event sequence is read back as frames.  A start condition is the    *)
(* four line writes clk 1, dio 1, dio 0, clk 0; a stop condition is clk 0, *)
(* dio 0, clk 1, dio 1; a byte is 8 bit slots (data, pause, clock high,    *)
(* pause, clock low, pause) and a closing clock pulse, its value read      *)
(* least significant bit first.  A write frame is the three phases data    *)
(* command, address + segment bytes, display control; a brightness frame   *)
(* is the two phases data command, display control; a pause frame is a     *)
(* sleep between phases; anything else is junk.                            *)
(***************************************************************************)
IsStartAt(b, i) ==
  /\ i + 3 <= Len(b)
  /\ b[i] = <<"clk", 1>>
  /\ b[i + 1] = <<"dio", 1>>
  /\ b[i + 2] = <<"dio", 0>>
  /\ b[i + 3] = <<"clk", 0>>

IsStopAt(b, i) ==
  /\ i + 3 <= Len(b)
  /\ b[i] = <<"clk", 0>>
  /\ b[i + 1] = <<"dio", 0>>
  /\ b[i + 2] = <<"clk", 1>>
  /\ b[i + 3] = <<"dio", 1>>

\* events of one serialized byte: 8 bit slots of 6 events and a final pulse
ByteSpan == 8 * 6 + 5

IsByteAt(b, i) ==
  /\ i + ByteSpan - 1 <= Len(b)
  /\ \A k \in 0 .. 7 :
       /\ b[i + 6 * k][1] = "dio"
       /\ b[i + 6 * k + 1] = <<"sleep", 10>>
       /\ b[i + 6 * k + 2] = <<"clk", 1>>
       /\ b[i + 6 * k + 3] = <<"sleep", 10>>
       /\ b[i + 6 * k + 4] = <<"clk", 0>>
       /\ b[i + 6 * k + 5] = <<"sleep", 10>>
  /\ b[i + 48] = <<"clk", 0>>
  /\ b[i + 49] = <<"sleep", 10>>
  /\ b[i + 50] = <<"clk", 1>>
  /\ b[i + 51] = <<"sleep", 10>>
  /\ b[i + 52] = <<"clk", 0>>

ByteAt(b, i) ==
  b[i][2] + 2 * b[i + 6][2] + 4 * b[i + 12][2] + 8 * b[i + 18][2]
    + 16 * b[i + 24][2] + 32 * b[i + 30][2] + 64 * b[i + 36][2]
    + 128 * b[i + 42][2]

\* a start-to-stop phase of exactly one byte begins at event i
IsOneBytePhaseAt(b, i) ==
  IsStartAt(b, i) /\ IsByteAt(b, i + 4) /\ IsStopAt(b, i + 4 + ByteSpan)

\* events of a phase of one byte
PhaseSpan == ByteSpan + 8

\* number of consecutive bytes from event i on
ByteRun(b, i) ==
  LET most == (Len(b) + 1 - i) \div ByteSpan
  IN  CHOOSE n \in 0 .. most :
        /\ \A j \in 0 .. n - 1 : IsByteAt(b, i + ByteSpan * j)
        /\ ~IsByteAt(b, i + ByteSpan * n)

WriteFrame(pos, segs, ctrl) ==
  [kind |-> "write", pos |-> pos, segs |-> segs, ctrl |-> ctrl, us |-> 0]

BrightFrame(ctrl) ==
  [kind |-> "brightness", pos |-> 0, segs |-> <<>>, ctrl |-> ctrl, us |-> 0]

PauseFrame(us) ==
  [kind |-> "pause", pos |-> 0, segs |-> <<>>, ctrl |-> 0, us |-> us]

JunkFrame ==
  [kind |-> "junk", pos |-> 0, segs |-> <<>>, ctrl |-> 0, us |-> 0]

\* a display-control phase begins at event i
IsCtrlPhaseAt(b, i) ==
  IsOneBytePhaseAt(b, i) /\ ByteAt(b, i + 4) \in 136 .. 143

\* a data-command phase begins at event i
IsDataPhaseAt(b, i) ==
  IsOneBytePhaseAt(b, i) /\ ByteAt(b, i + 4) = 64

\* an address phase with n >= 0 segment bytes begins at event i
IsAddrPhaseAt(b, i) ==
  /\ IsStartAt(b, i)
  /\ IsByteAt(b, i + 4)
  /\ ByteAt(b, i + 4) \in 192 .. 195
  /\ IsStopAt(b, i + 4 + ByteSpan * (1 + ByteRun(b, i + 4 + ByteSpan)))

RECURSIVE Frames(_, _)
Frames(b, i) ==
  IF i > Len(b) THEN <<>>
  ELSE IF b[i][1] = "sleep" THEN <<PauseFrame(b[i][2])>> \o Frames(b, i + 1)
  ELSE IF IsDataPhaseAt(b, i) /\ IsCtrlPhaseAt(b, i + PhaseSpan)
    THEN <<BrightFrame(ByteAt(b, i + PhaseSpan + 4))>>
           \o Frames(b, i + 2 * PhaseSpan)
  ELSE IF IsDataPhaseAt(b, i) /\ IsAddrPhaseAt(b, i + PhaseSpan)
    THEN LET a == i + PhaseSpan
             n == ByteRun(b, a + 4 + ByteSpan)
             c == a + PhaseSpan + ByteSpan * n
         IN  IF IsCtrlPhaseAt(b, c)
             THEN <<WriteFrame(ByteAt(b, a + 4) - 192,
                               [k \in 1 .. n |-> ByteAt(b, a + 4 + ByteSpan * k)],
                               ByteAt(b, c + 4))>>
                    \o Frames(b, c + PhaseSpan)
             ELSE <<JunkFrame>>
  ELSE <<JunkFrame>>

\* the frames of the most recent call
BusFrames == Frames(bus, 1)

\* the display-control byte 0x80 | 0x08 | v for v in 0..7
CtrlByte(v) == 136 + v

----
\* C1: a write with pos in 0..3 issues exactly one transaction: the
\* data-command phase (0x40), then the address phase (0xC0|pos followed by
\* every segment byte in order), then the display-control phase
\* (0x80|0x08|brightness), each bracketed by start and stop, and nothing else.
C1_WriteTransaction ==
  (call.op = "write" /\ call.pos \in 0 .. 3) =>
    /\ err = ""
    /\ BusFrames = <<WriteFrame(call.pos, call.segments, CtrlByte(_brightness))>>

C1_Witness ==
  /\ call.op = "write"
  /\ call.pos = 3
  /\ call.segments = <<6, 237>>
  /\ _brightness = 5
  /\ Len(bus) > 0

\* C2: a write with pos outside 0..3 raises "Position out of range" before
\* any bus activity: no line write is issued, both lines keep their level and
\* the stored brightness is unchanged.
C2_WritePosRejected ==
  [][(call'.op = "write" /\ call'.pos \notin 0 .. 3) =>
       /\ err' = "ValueError: Position out of range"
       /\ bus' = <<>>
       /\ clk_level' = clk_level
       /\ dio_level' = dio_level
       /\ _brightness' = _brightness]_vars

C2_Witness ==
  /\ call.op = "write"
  /\ call.pos = 4
  /\ call.segments = <<6>>
  /\ err = "ValueError: Position out of range"
  /\ clk_level = 1
  /\ _brightness = 2

\* C3: brightness(b) with b in 0..7 followed by brightness() returns b.
C3_BrightnessRoundTrip ==
  [][(call.op = "brightness" /\ call.val \in 0 .. 7
        /\ call'.op = "brightness_get") => ret' = call.val]_vars

\* the constructor never sets 3, so a getter returning 3 follows a setter
C3_Witness ==
  /\ call.op = "brightness_get"
  /\ ret = 3
  /\ err = ""

\* C4: a brightness outside 0..7 raises "Brightness out of range" before any
\* bus activity: the setter issues no line write and keeps the stored value;
\* the constructor opens no gpiochip and requests no line.
C4_BrightnessRejected ==
  [][/\ (call'.op = "brightness" /\ call'.val \notin 0 .. 7) =>
          /\ err' = "ValueError: Brightness out of range"
          /\ bus' = <<>>
          /\ clk_level' = clk_level
          /\ dio_level' = dio_level
          /\ _brightness' = _brightness
     /\ (call'.op = "construct" /\ call'.brightness \notin 0 .. 7) =>
          /\ err' = "ValueError: Brightness out of range"
          /\ chipOpens' = 0
          /\ requested' = {}
          /\ pc' = "new"]_vars

C4_Witness ==
  /\ call.op = "brightness"
  /\ call.val = 8
  /\ err = "ValueError: Brightness out of range"
  /\ _brightness = 3
  /\ clk_level = 1

\* C5: brightness(b) with b in 0..7 issues exactly two phases, the data
\* command (0x40) and the display control (0x80|0x08|b), with no address
\* byte and no segment byte.
C5_BrightnessPhases ==
  (call.op = "brightness" /\ call.val \in 0 .. 7) =>
    /\ err = ""
    /\ BusFrames = <<BrightFrame(CtrlByte(call.val))>>

C5_Witness ==
  /\ call.op = "brightness"
  /\ call.val = 5
  /\ Len(bus) > 0

\* the line writes among events off .. off + ByteSpan - 1, pauses left out
LineEvents(b, off) ==
  LET IsLine(e) == e[1] # "sleep"
  IN  SelectSeq(SubSeq(b, off, off + ByteSpan - 1), IsLine)

\* rising clock edges among events off .. off + ByteSpan - 1
RisingEdges(b, off) ==
  {k \in off .. off + ByteSpan - 1 :
     b[k] = <<"clk", 1>> /\ LastLevel(b, k - 1, "clk", 0) = 0}

\* the byte v is serialized at events off .. off + ByteSpan - 1
ByteShape(b, off, v) ==
  LET l == LineEvents(b, off)
  IN  /\ off + ByteSpan - 1 <= Len(b)
      /\ Len(l) = 27
      /\ \A i \in 0 .. 7 :
           /\ l[3 * i + 1] = <<"dio", (v \div (2 ^ i)) % 2>>
           /\ l[3 * i + 2] = <<"clk", 1>>
           /\ l[3 * i + 3] = <<"clk", 0>>
      /\ l[25] = <<"clk", 0>>
      /\ l[26] = <<"clk", 1>>
      /\ l[27] = <<"clk", 0>>
      /\ Cardinality(RisingEdges(b, off)) = 9
      /\ LastLevel(b, off + ByteSpan - 1, "clk", 1) = 0

\* where the j-th byte of a write of n segment bytes starts: the data
\* command, then the address and the segments, then the control byte
WriteByteOffset(j, n) ==
  IF j = 1 THEN 5
  ELSE IF j <= n + 2 THEN 66 + ByteSpan * (j - 2)
  ELSE 74 + ByteSpan * (n + 1)

\* C6: every byte of a write or of a brightness change is serialized least
\* significant bit first: for bit i = 0..7 the data line is set to bit i,
\* the clock raised, the clock lowered; then one extra clock pulse (low,
\* high, low) with no data write; 9 rising clock edges in all and the clock
\* low at the end.
C6_ByteSerialization ==
  /\ (call.op = "write" /\ call.pos \in 0 .. 3) =>
       LET n == Len(call.segments)
           bytes == <<64, 192 + call.pos>> \o call.segments
                      \o <<CtrlByte(_brightness)>>
       IN  \A j \in 1 .. n + 3 : ByteShape(bus, WriteByteOffset(j, n), bytes[j])
  /\ (call.op = "brightness" /\ call.val \in 0 .. 7) =>
       /\ ByteShape(bus, 5, 64)
       /\ ByteShape(bus, 5 + PhaseSpan, CtrlByte(call.val))

C6_Witness ==
  /\ call.op = "write"
  /\ call.pos = 1
  /\ call.segments = <<237, 6>>
  /\ ByteShape(bus, WriteByteOffset(3, 2), 237)
  /\ ByteShape(bus, WriteByteOffset(4, 2), 6)

\* the unit suffix of temperature: glyphs of '*' and 'C'
DegreeC == <<encode_char(42), encode_char(67)>>

\* C7 as stated: temperature(n) with n < -9 shows "lo" and then writes the
\* degree+C suffix at position 2, as two write transactions in that order.
C7_LoThenSuffix ==
  (call.op = "temperature" /\ call.num < -9) =>
    BusFrames =
      <<WriteFrame(0, <<encode_char(108), encode_char(111)>>, CtrlByte(_brightness)),
        WriteFrame(2, DegreeC, CtrlByte(_brightness))>>

\* the two characters of n in -9..99 right-aligned in a space-padded field
TwoCharsSpace(n) ==
  IF n < 0 THEN <<45, 48 - n>>
  ELSE IF n < 10 THEN <<32, 48 + n>>
  ELSE <<48 + (n \div 10), 48 + (n % 10)>>

\* C8: temperature(n) with n in -9..99 issues exactly two write
\* transactions: the 2 glyphs of n right-aligned at position 0, then the
\* glyphs of '*' and 'C' at position 2, each a complete transaction.
C8_TemperatureTwoWrites ==
  (call.op = "temperature" /\ call.num \in -9 .. 99) =>
    /\ err = ""
    /\ BusFrames =
         <<WriteFrame(0, [k \in 1 .. 2 |-> encode_char(TwoCharsSpace(call.num)[k])],
                      CtrlByte(_brightness)),
           WriteFrame(2, DegreeC, CtrlByte(_brightness))>>

C8_Witness ==
  /\ call.op = "temperature"
  /\ call.num = -9
  /\ Len(BusFrames) = 2
  /\ BusFrames[2].pos = 2

\* n clamped to -9..99
Clamped(n) == IF n < -9 THEN -9 ELSE IF n > 99 THEN 99 ELSE n

\* the two characters of n in -9..99 under %02d
TwoCharsZero(n) ==
  IF n < 0 THEN <<45, 48 - n>>
  ELSE <<48 + (n \div 10), 48 + (n % 10)>>

\* C9: numbers(n1, n2, colon) clamps both numbers to -9..99, formats each
\* as 2 characters (%02d) and issues exactly one write transaction of the 4
\* glyphs at position 0, bit 0x80 set on byte index 1 iff colon is true.
C9_Numbers ==
  (call.op = "numbers") =>
    LET chars == TwoCharsZero(Clamped(call.num1)) \o TwoCharsZero(Clamped(call.num2))
        glyphs == [k \in 1 .. 4 |-> encode_char(chars[k])]
        segs == [k \in 1 .. 4 |->
                   IF k = 2 /\ call.colon THEN glyphs[k] + 128 ELSE glyphs[k]]
    IN  /\ err = ""
        /\ BusFrames = <<WriteFrame(0, segs, CtrlByte(_brightness))>>

C9_Witness ==
  /\ call.op = "numbers"
  /\ call.num1 = 100
  /\ call.num2 = -10
  /\ call.colon
  /\ BusFrames = <<WriteFrame(0, <<111, 111 + 128, 64, 111>>, CtrlByte(_brightness))>>

\* characters the glyph encoder accepts
ValidChar(o) ==
  o \in (48 .. 57) \cup (65 .. 90) \cup (97 .. 122) \cup {32, 42, 45}

ValidString(string) == \A i \in 1 .. Len(string) : ValidChar(string[i])

\* C10: scroll(s, d) on a valid string issues exactly len(s)+5 write
\* transactions, each of exactly 4 segment bytes at position 0, with a pause
\* of d milliseconds after each of them.
C10_ScrollFrames ==
  (call.op = "scroll" /\ ValidString(call.string)) =>
    LET f == BusFrames
        count == Len(call.string) + 5
    IN  /\ err = ""
        /\ Len(f) = 2 * count
        /\ \A k \in 1 .. count :
             /\ f[2 * k - 1].kind = "write"
             /\ f[2 * k - 1].pos = 0
             /\ Len(f[2 * k - 1].segs) = 4
             /\ f[2 * k] = PauseFrame(call.delay * 1000)

C10_Witness ==
  /\ call.op = "scroll"
  /\ call.string = <<65, 53>>
  /\ call.delay = 10
  /\ Len(BusFrames) = 14

\* the write frames among the frames of the most recent call, in order
BusWrites ==
  LET IsWrite(f) == f.kind = "write"
  IN  SelectSeq(BusFrames, IsWrite)

\* the glyphs of a valid string
Glyphs(string) == [k \in 1 .. Len(string) |-> encode_char(string[k])]

\* s[i:i+4] of a 0-indexed buffer given as a sequence
Window(buffer, i) ==
  [j \in 1 .. (IF Len(buffer) - i >= 4 THEN 4
               ELSE IF Len(buffer) - i > 0 THEN Len(buffer) - i ELSE 0) |->
     buffer[i + j]]

\* C11 as stated: the payloads of scroll(s, d) are the slices [i, i+4), for
\* i = 0..len(s)+4, of a buffer of 4 zero bytes followed by the glyphs of s,
\* of length 4+len(s).
C11_WindowOverShortBuffer ==
  (call.op = "scroll" /\ ValidString(call.string)) =>
    LET buffer == <<0, 0, 0, 0>> \o Glyphs(call.string)
        w == BusWrites
    IN  /\ Len(w) = Len(call.string) + 5
        /\ \A i \in 0 .. Len(call.string) + 4 : w[i + 1].segs = Window(buffer, i)

\* C11 amended: the payloads of scroll(s, d) are the slices [i, i+4), for
\* i = 0..len(s)+4, of a buffer of 4 zero bytes, the glyphs of s and 4 more
\* zero bytes, of length 8+len(s); every slice has 4 bytes.
C11_WindowOverPaddedBuffer ==
  (call.op = "scroll" /\ ValidString(call.string)) =>
    LET buffer == <<0, 0, 0, 0>> \o Glyphs(call.string) \o <<0, 0, 0, 0>>
        w == BusWrites
    IN  /\ Len(w) = Len(call.string) + 5
        /\ \A i \in 0 .. Len(call.string) + 4 :
             /\ w[i + 1].segs = Window(buffer, i)
             /\ Len(w[i + 1].segs) = 4

C11_Witness ==
  /\ call.op = "scroll"
  /\ call.string = <<65, 53>>
  /\ Len(BusWrites) = 7
  /\ BusWrites[1].segs = <<0, 0, 0, 0>>
  /\ BusWrites[4].segs = <<0, 119, 109, 0>>
  /\ BusWrites[7].segs = <<0, 0, 0, 0>>

\* C12: show(s, colon) on a valid string issues exactly one write
\* transaction at position 0 whose payload is the first min(len(s), 4) glyphs
\* of s in order, bit 0x80 ORed into byte index 1 iff colon is true and s
\* has at least 2 characters, every other byte unaltered.
C12_Show ==
  (call.op = "show" /\ ValidString(call.string)) =>
    LET n == IF Len(call.string) < 4 THEN Len(call.string) ELSE 4
        g == Glyphs(call.string)
        segs == [k \in 1 .. n |->
                   IF k = 2 /\ call.colon /\ g[k] < 128 THEN g[k] + 128 ELSE g[k]]
    IN  /\ err = ""
        /\ BusFrames = <<WriteFrame(0, segs, CtrlByte(_brightness))>>

C12_Witness ==
  /\ call.op = "show"
  /\ call.string = <<66, 50, 97, 65, 53>>
  /\ call.colon
  /\ BusFrames = <<WriteFrame(0, <<124, 91 + 128, 119, 119>>, CtrlByte(_brightness))>>

\* the glyph-table index of an accepted character
GlyphIndex(o) ==
  IF o \in 48 .. 57 THEN o - 48
  ELSE IF o \in 65 .. 90 THEN o - 55
  ELSE IF o \in 97 .. 122 THEN o - 87
  ELSE IF o = 32 THEN 36
  ELSE IF o = 45 THEN 37
  ELSE 38

\* C13: encode_char returns the glyph-table byte at index c-48 for digits,
\* c-55 for upper case, c-87 for lower case (a lower-case letter and its
\* upper-case form give the same byte), 36 for space, 37 for '-', 38 for
\* '*', the index always within 0..38; every other character raises the
\* character-out-of-range error.
C13_EncodeChar ==
  (call.op = "encode_char") =>
    IF ValidChar(call.o)
    THEN /\ err = ""
         /\ GlyphIndex(call.o) \in 0 .. 38
         /\ Len(_SEGMENTS) = 39
         /\ ret = _SEGMENTS[GlyphIndex(call.o) + 1]
         /\ call.o \in 97 .. 122 => ret = _SEGMENTS[GlyphIndex(call.o - 32) + 1]
    ELSE /\ err = "ValueError: Character out of range"
         /\ ret = "None"

C13_Witness ==
  /\ call.op = "encode_char"
  /\ call.o = 122
  /\ err = ""
  /\ ret = 91

\* C14: show or scroll on a string holding a character the encoder rejects,
\* at any index, raises the character-out-of-range error before anything is
\* written: the call issues no line write at all, both lines keep their
\* levels and the stored brightness is unchanged.
C14_AtomicEncodeFailure ==
  [][(call'.op \in {"show", "scroll"} /\ ~ValidString(call'.string)) =>
       /\ err' = "ValueError: Character out of range"
       /\ ret' = "None"
       /\ bus' = <<>>
       /\ clk_level' = clk_level
       /\ dio_level' = dio_level
       /\ _brightness' = _brightness]_vars

C14_Witness ==
  /\ call.op = "show"
  /\ call.string = <<66, 50, 97, 65, 33>>
  /\ err = "ValueError: Character out of range"
  /\ bus = <<>>
  /\ clk_level = 1
  /\ dio_level = 1
  /\ _brightness = 7

\* the operations that drive the bus
BusOps == {"write", "brightness", "show", "numbers", "temperature", "scroll"}

\* a call that drove the bus has returned
Completed == call.op \in BusOps /\ err = ""

\* index of the last line write of the recorded call
LastLineWrite ==
  CHOOSE n \in 1 .. Len(bus) :
    /\ bus[n][1] # "sleep"
    /\ \A m \in n + 1 .. Len(bus) : bus[m][1] = "sleep"

\* C15, as stated: after every completed write, brightness-set, show,
\* numbers, temperature or scroll call the clock line and the data line are
\* both at the low level.
C15_LinesLowAfterStop ==
  Completed => clk_level = 0 /\ dio_level = 0

\* C15, amended: the last line writes of every completed write,
\* brightness-set, show, numbers, temperature or scroll call are a stop
\* condition (clock low, data low, clock high, data high), which leaves the
\* clock line and the data line both at the high level; the lines are both
\* low only from construction until the first such call.
C15_LinesHighAfterStop ==
  /\ Completed =>
       /\ bus # <<>>
       /\ LastLineWrite >= 4
       /\ IsStopAt(bus, LastLineWrite - 3)
       /\ clk_level = 1
       /\ dio_level = 1
  /\ (call.op = "construct" /\ err = "") => clk_level = 0 /\ dio_level = 0
  /\ <<clk_level, dio_level>> \in {<<0, 0>>, <<1, 1>>}

C15_Witness ==
  /\ call.op = "scroll"
  /\ call.string = <<65>>
  /\ err = ""
  /\ bus[Len(bus)][1] = "sleep"
  /\ clk_level = 1
  /\ dio_level = 1

\* positions of the start and of the stop conditions in an event sequence
Starts(b) == {i \in 1 .. Len(b) : IsStartAt(b, i)}

Stops(b) == {i \in 1 .. Len(b) : IsStopAt(b, i)}

\* start and stop conditions strictly alternate, beginning with a start and
\* ending with a stop
Alternate(b) ==
  LET st == Starts(b)
      sp == Stops(b)
      between(i, j) == \E m \in st \cup sp : i < m /\ m < j
      lines == {i \in 1 .. Len(b) : b[i][1] # "sleep"}
  IN  /\ \A i \in st : \E j \in sp : i < j /\ ~between(i, j)
      /\ \A j \in sp : \E i \in st : i < j /\ ~between(i, j)
      /\ \A i \in lines : (\E m \in st : m <= i) /\ (\E m \in sp : m + 3 >= i)

\* the groups a call of operation op may put on the bus
GroupShape(c, e, f) ==
  /\ \A k \in 1 .. Len(f) : f[k].kind # "junk"
  /\ IF e # "" \/ c.op \notin BusOps THEN f = <<>>
     ELSE IF c.op = "brightness"
       THEN Len(f) = 1 /\ f[1].kind = "brightness"
     ELSE IF c.op = "scroll"
       THEN /\ Len(f) % 2 = 0
            /\ \A k \in 1 .. Len(f) :
                 f[k].kind = (IF k % 2 = 1 THEN "write" ELSE "pause")
     ELSE /\ Len(f) \in (IF c.op = "temperature" THEN {1, 2} ELSE {1})
          /\ \A k \in 1 .. Len(f) : f[k].kind = "write"

\* number of start-to-stop phases of a frame sequence
RECURSIVE PhaseCount(_)
PhaseCount(f) ==
  IF f = <<>> THEN 0
  ELSE (IF Head(f).kind = "write" THEN 3
        ELSE IF Head(f).kind = "brightness" THEN 2 ELSE 0)
         + PhaseCount(Tail(f))

\* C16: what every call puts on the bus reads back as whole groups (data
\* command, address + segments, display control) for content-changing calls
\* and (data command, display control) for a brightness change, and nothing
\* else; start and stop conditions strictly alternate beginning with a
\* start, there are as many of each as the groups have phases, and every
\* started phase is stopped before the call returns.
C16_FrameGroups ==
  LET f == BusFrames
  IN  /\ GroupShape(call, err, f)
      /\ Alternate(bus)
      /\ Cardinality(Starts(bus)) = PhaseCount(f)
      /\ Cardinality(Stops(bus)) = PhaseCount(f)

C16_Witness ==
  /\ call.op = "scroll"
  /\ call.string = <<>>
  /\ Len(BusFrames) = 10
  /\ Cardinality(Starts(bus)) = 15
  /\ Alternate(bus)

\* the stored brightness is a level 0..7, and every write transaction and
\* brightness change on the bus carries it in its control byte
BrightnessOnBus ==
  pc = "ready" =>
    /\ _brightness \in 0 .. 7
    /\ \A k \in 1 .. Len(BusFrames) :
         BusFrames[k].kind \in {"write", "brightness"} =>
           BusFrames[k].ctrl = 128 + 8 + _brightness

\* a call leaves the stored brightness alone, unless it is the constructor
\* or a brightness(val) that does not raise
BrightnessStep ==
  pc' = "ready" =>
    IF call'.op = "construct" THEN _brightness' = call'.brightness
    ELSE IF call'.op = "brightness" /\ err' = "" THEN _brightness' = call'.val
    ELSE _brightness' = _brightness

\* C17: the stored brightness is in 0..7 in every state of a constructed
\* controller; it is the constructor's argument until a brightness(val) call
\* succeeds, which makes it val, and no other call (write, show, numbers,
\* temperature, scroll, the getter, a rejected brightness(val)) changes it;
\* the control byte of every write transaction is 0x80|0x08|v for the
\* stored value v.
C17_BrightnessFrame ==
  /\ []BrightnessOnBus
  /\ [][BrightnessStep]_vars

C17_Witness ==
  /\ call.op = "numbers"
  /\ err = ""
  /\ _brightness = 5
  /\ Len(BusFrames) = 1
  /\ BusFrames[1].kind = "write"
  /\ BusFrames[1].ctrl = 141

\* the events of b at which the data line changes level while the clock
\* line is high, the lines being at levels c0 and d0 before the first event
HighEdges(b, c0, d0) ==
  {n \in 1 .. Len(b) :
     /\ b[n][1] = "dio"
     /\ b[n][2] # LastLevel(b, n - 1, "dio", d0)
     /\ LastLevel(b, n - 1, "clk", c0) = 1}

\* event n of b is the falling data edge of a start condition
IsStartFall(b, n) == n >= 3 /\ IsStartAt(b, n - 2) /\ b[n] = <<"dio", 0>>

\* event n of b is the rising data edge of a stop condition
IsStopRise(b, n) == n >= 4 /\ IsStopAt(b, n - 3) /\ b[n] = <<"dio", 1>>

\* C18, as stated: the only data transitions made while the clock is high
\* are the falling edge of a start condition and the rising edge of a stop
\* condition.
C18_OnlyStartStopEdges ==
  [][\A n \in HighEdges(bus', clk_level, dio_level) :
       IsStartFall(bus', n) \/ IsStopRise(bus', n)]_vars

\* past the start condition that opens a call, the data line changes level
\* while the clock is high only at a start's fall or a stop's rise
QuietInsidePhase ==
  /\ bus # <<>> => IsStartAt(bus, 1)
  /\ \A n \in HighEdges(bus, 0, 0) :
       n > 4 => IsStartFall(bus, n) \/ IsStopRise(bus, n)

\* in the start condition that opens a call the data line falls while the
\* clock is high, and it also rises while the clock is high when the call
\* finds the lines low
OpeningStart ==
  bus' # <<>> =>
    /\ dio_level = 0 => clk_level = 0 /\ bus = <<>>
    /\ HighEdges(SubSeq(bus', 1, 4), clk_level, dio_level)
         = (IF dio_level = 0 THEN {2, 3} ELSE {3})

\* C18, amended: inside a phase, from the end of the start condition to the
\* beginning of the stop condition, the data line changes level only while
\* the clock line is low, across any number of consecutive byte writes; the
\* data transitions made while the clock is high are the falling edge of
\* each start condition, the rising edge of each stop condition, and, in the
\* start condition of the first bus operation after construction, which
\* finds both lines low, the rising edge of the data line that precedes the
\* falling one.
C18_DataStableWhileClockHigh ==
  /\ []QuietInsidePhase
  /\ [][OpeningStart]_vars

C18_Witness ==
  /\ call.op = "write"
  /\ Len(call.segments) = 2
  /\ err = ""
  /\ Cardinality(HighEdges(bus, 0, 0)) = 7
  /\ Cardinality(HighEdges(bus, 1, 1)) = 6

\* C19: every write transaction of show, numbers, temperature and scroll
\* carries at most 4 - pos segment bytes (show: at most 4 at position 0;
\* numbers: exactly 4 at position 0; temperature: exactly 2, at position 0
\* or at position 2; scroll: exactly 4 at position 0); write itself accepts
\* any number of segment bytes at a position in 0..3 and sends them all.
C19_PayloadWithinDisplay ==
  LET w == BusWrites
  IN  /\ call.op \in {"show", "numbers", "temperature", "scroll"} =>
           \A k \in 1 .. Len(w) :
             /\ Len(w[k].segs) <= 4 - w[k].pos
             /\ call.op = "show" => w[k].pos = 0 /\ Len(w[k].segs) <= 4
             /\ call.op = "numbers" => w[k].pos = 0 /\ Len(w[k].segs) = 4
             /\ call.op = "temperature" =>
                  w[k].pos \in {0, 2} /\ Len(w[k].segs) = 2
             /\ call.op = "scroll" => w[k].pos = 0 /\ Len(w[k].segs) = 4
      /\ (call.op = "write" /\ call.pos \in 0 .. 3) =>
           /\ err = ""
           /\ Len(w) = 1
           /\ w[1].pos = call.pos
           /\ w[1].segs = call.segments

C19_Witness ==
  /\ call.op = "show"
  /\ Len(call.string) = 5
  /\ ~call.colon
  /\ err = ""
  /\ Len(BusWrites) = 1
  /\ Len(BusWrites[1].segs) = 4

\* a brightness(val) call in which a line write failed leaves val stored,
\* having issued the events that precede the failed write and nothing more
FaultKeepsValue ==
  (call.op = "brightness" /\ call.failAt > 0) =>
    /\ call.val \in 0 .. 7
    /\ err = "OSError"
    /\ ret = "None"
    /\ _brightness = call.val
    /\ Len(bus) = call.failAt - 1
    /\ bus = SubSeq(_write_data_cmd \o _write_dsp_ctrl(call.val), 1, Len(bus))
    /\ BusFrames # <<BrightFrame(CtrlByte(call.val))>>

\* C20: brightness(val) with val in 0..7 stores val before its first line
\* write; when a line write of the data-command or of the control-command
\* phase fails, the error leaves the call, the bus holds the events before
\* the failed write and no other (no retry, no further transition), and the
\* next brightness() returns val.
C20_StoredBeforeWrites ==
  /\ []FaultKeepsValue
  /\ [][(call.op = "brightness" /\ err = "OSError"
           /\ call'.op = "brightness_get") =>
          ret' = call.val /\ bus' = <<>>]_vars

C20_Witness ==
  /\ call.op = "brightness_get"
  /\ ret = 3
  /\ clk_level = 1
  /\ dio_level = 0

====
